---- MODULE Spec2Model ----
(***************************************************************************)
(* Model of the Encorely maintenance scripts.  Every script is a one-shot  *)
(* batch program; one behaviour of the model is one invocation of one      *)
(* script (prog), stepping through its statements (pc) until the process   *)
(* exits (pc = "exited", exit_status set).                                 *)
(*                                                                         *)
(* Strings that the code inspects character-wise (paths, requirement       *)
(* lines) are sequences of atoms: an atom is a run of characters that the  *)
(* code never splits ("Sources", "/", ".swift", "==", ...).                *)
(***************************************************************************)
EXTENDS Integers, Sequences, FiniteSets, TLC

VARIABLES
    prog,             \* which script this invocation runs
    pc,               \* position in the script
    exit_status,      \* process exit status, meaningful once pc = "exited"
    stderr,           \* what was written to the error stream, in order
    stdout,           \* what was printed, in order
    \* ---- scripts/check_path_hygiene.py
    base,             \* os.environ.get('GITHUB_BASE_REF'): <<>> is None
    head,             \* os.environ.get('GITHUB_HEAD_REF'): <<>> is None
    ref_range,
    git_result,       \* how subprocess.check_output ended
    out,              \* the diff listing: a sequence of lines
    violations,
    \* ---- fix_duplicates.py
    file,             \* project.pbxproj on disk: a sequence of lines
    file0,            \* the file as it was before the first run (history)
    runs,             \* how many times the script has been started
    content,
    matches,
    files_to_keep,
    files_to_remove,
    new_content,
    \* ---- scripts/scan_redundancy.py, scripts/scan_project.py
    ROOT,             \* the scan root, as path components
    tree,             \* the files under ROOT: [dir, name], dir relative to ROOT
    walked,           \* the directories os.walk has yielded so far
    swift_files,
    sizes,            \* os.path.getsize of each collected file, in order
    zero_byte,
    by_name,
    duplicates,
    read,             \* what f.read_text met for each collected file, in order
    intents,
    widgets,
    activities,
    capabilities,
    dataModels,
    \* ---- scripts/dependency_analyzer.py, scripts/project_architect.py,
    \*      scripts/architecture_diagram_generator.py
    path_exists,      \* project_path.exists()
    fs,               \* the files under project_path, each a sequence of components
    written,          \* the files the script has written
    \* ---- scripts/dependency_analyzer.py
    analyze,          \* args.analyze
    package_json,     \* package.json as the parser found it ("unread" before)
    requirements_txt,
    go_mod,
    package_swift,
    all_deps,
    all_packages,
    warnings,
    \* ---- scripts/architecture_diagram_generator.py
    args_format,
    args_output,
    stack,
    components,
    output_file,
    \* ---- scripts/project_architect.py
    structure_recs,
    quality_recs,
    security_recs,
    cicd_recs,
    metrics,
    visited,          \* the files compute_metrics has counted so far
    all_recommendations

commonVars == <<prog, pc, exit_status, stderr, stdout>>
hygVars == <<base, head, ref_range, git_result, out, violations>>
dedVars == <<file, file0, runs, content, matches, files_to_keep, files_to_remove, new_content>>
redVars == <<sizes, zero_byte, by_name, duplicates>>
findVars == <<read, intents, widgets, activities, capabilities, dataModels>>
scanVars == <<ROOT, tree, walked, swift_files, redVars, findVars>>
projVars == <<path_exists, fs, written>>
depVars == <<analyze, package_json, requirements_txt, go_mod, package_swift,
             all_deps, all_packages, warnings>>
diagVars == <<args_format, args_output, stack, components, output_file>>
archVars == <<structure_recs, quality_recs, security_recs, cicd_recs, metrics,
              visited, all_recommendations>>
vars == <<commonVars, hygVars, dedVars, scanVars, projVars, depVars, diagVars, archVars>>

\* ------------------------------------------------------------ bounds
MaxLines == 2
MaxEntries == 3
MaxRuns == 2
MaxFiles == 3
MaxRuntime == 2
MaxReqLines == 2

\* ------------------------------------------------------------ helpers
SeqsUpTo(S, n) == UNION {[1..k -> S] : k \in 0..n}

StartsWith(s, p) == Len(s) >= Len(p) /\ SubSeq(s, 1, Len(p)) = p

EndsWith(s, a) == Len(s) >= 1 /\ s[Len(s)] = a

RECURSIVE LStrip(_)
LStrip(s) == IF s # <<>> /\ Head(s) = " " THEN LStrip(Tail(s)) ELSE s

RECURSIVE RStrip(_)
RStrip(s) ==
    IF s # <<>> /\ s[Len(s)] = " " THEN RStrip(SubSeq(s, 1, Len(s) - 1)) ELSE s

\* str.strip()
Strip(s) == RStrip(LStrip(s))

\* An uncaught Python exception: traceback on stderr, exit status 1.
Uncaught(exc) ==
    /\ stderr' = Append(stderr, <<"Traceback", exc>>)
    /\ exit_status' = 1
    /\ pc' = "exited"

\* sys.exit(code)
SysExit(code) ==
    /\ exit_status' = code
    /\ pc' = "exited"

\* ============================================================
\* scripts/check_path_hygiene.py
\* ============================================================
ALLOWED == <<
    <<"Sources", "/", "App", "/", "Consolidated", "/">>,
    <<"Sources", "/", "Kits", "/">>,
    <<"Sources", "/", "SharedTypes", "/">>,
    <<"Sources", "/", "MCP", "[^/]+", "/">>,
    <<"Tests", "/">> >>

\* re.match of one ALLOWED pattern at the start of path.  The only
\* non-literal element is [^/]+ : one or more atoms other than "/".
ReMatch(pat, path) ==
    IF \E i \in 1..Len(pat) : pat[i] = "[^/]+"
    THEN LET i == CHOOSE k \in 1..Len(pat) : pat[k] = "[^/]+"
             pre == SubSeq(pat, 1, i - 1)
             post == SubSeq(pat, i + 1, Len(pat))
         IN  /\ StartsWith(path, pre)
             /\ \E k \in i..Len(path) :
                   /\ \A j \in i..k : path[j] # "/"
                   /\ StartsWith(SubSeq(path, k + 1, Len(path)), post)
    ELSE StartsWith(path, pat)

IsAllowed(path) == \E n \in 1..Len(ALLOWED) : ReMatch(ALLOWED[n], path)

Truthy(v) == v # <<>> /\ v[1] # ""

\* RefRangeFor that takes a present but empty GITHUB_BASE_REF as a base
RefRangeFor_Present(b) ==
    IF b # <<>> THEN <<"origin/", b[1], "...HEAD">> ELSE <<"HEAD~1..HEAD">>

RefRangeFor(b) ==
    IF Truthy(b) THEN <<"origin/", b[1], "...HEAD">> ELSE <<"HEAD~1..HEAD">>

\* ScanLine without the `status != 'A'` test.
ScanLine_AnyStatus(acc, parts) ==
    IF Len(parts) < 2 THEN acc
    ELSE LET path == Strip(parts[2])
         IN  IF ~EndsWith(path, ".swift") THEN acc
             ELSE IF StartsWith(path, <<"backup", "/">>) THEN acc
             ELSE IF ~IsAllowed(path) THEN Append(acc, path)
             ELSE acc

\* One pass of the loop body over a line already split on tabs: the
\* violations list extended (or not) by this line.
ScanLine(acc, parts) ==
    IF Strip(parts[1]) # <<"A">> THEN acc
    ELSE IF Len(parts) < 2 THEN acc
    ELSE LET path == Strip(parts[2])
         IN  IF ~EndsWith(path, ".swift") THEN acc
             ELSE IF StartsWith(path, <<"backup", "/">>) THEN acc
             ELSE IF ~IsAllowed(path) THEN Append(acc, path)
             ELSE acc

RECURSIVE ScanLines(_, _)
ScanLines(acc, lines) ==
    IF lines = <<>> THEN acc
    ELSE ScanLines(ScanLine(acc, Head(lines)), Tail(lines))

\* Lines of `git diff --name-status`, split on tabs: status, path(s).
DiffPaths == {
    <<"Sources", "/", "App", "/", "Random", "/", "Foo", ".swift">>,
    <<"Sources", "/", "App", "/", "Consolidated", "/", "Mix", ".swift">>,
    <<"Sources", "/", "Kits", "/", "Audio", ".swift">>,
    <<"Sources", "/", "SharedTypes", "/", "T", ".swift">>,
    <<"Sources", "/", "MCP", "Server", "/", "S", ".swift">>,
    <<"Sources", "/", "MCP", "/", "S", ".swift">>,
    <<"Tests", "/", "Foo", ".swift">>,
    <<"backup", "/", "Old", ".swift">>,
    <<"App", "/", "Tests", "/", "Foo", ".swift">>,
    <<"Sources", "/", "App", "/", "Random", "/", "Notes", ".md">>,
    <<"Foo", ".swift", " ">> }

DiffLines ==
    {<<<<"A">>, p>> : p \in DiffPaths}
    \cup {<<<<"M">>, <<"Sources", "/", "App", "/", "Random", "/", "Foo", ".swift">>>>,
          <<<<"D">>, <<"Sources", "/", "App", "/", "Random", "/", "Foo", ".swift">>>>,
          <<<<"R100">>, <<"Tests", "/", "Foo", ".swift">>,
                        <<"Sources", "/", "App", "/", "Random", "/", "Foo", ".swift">>>>,
          <<<<"A">>>>,
          <<<<>>>>}

EnvValues == {<<>>, <<"">>, <<"main">>}

HygInit ==
    /\ base \in EnvValues
    /\ head \in {<<>>, <<"topic">>}
    /\ ref_range = <<>>
    /\ git_result = "none"
    /\ out = <<>>
    /\ violations = <<>>

HygIdle ==
    /\ base = <<>>
    /\ head = <<>>
    /\ ref_range = <<>>
    /\ git_result = "none"
    /\ out = <<>>
    /\ violations = <<>>

HygSelectRange ==
    /\ prog = "check_path_hygiene" /\ pc = "start"
    /\ ref_range' = RefRangeFor(base)
    /\ pc' = "diff"
    /\ UNCHANGED <<prog, exit_status, stderr, stdout>>
    /\ UNCHANGED <<base, head, git_result, out, violations>>
    /\ UNCHANGED dedVars
    /\ UNCHANGED scanVars
    /\ UNCHANGED <<projVars, depVars, diagVars, archVars>>

\* git ran and exited 0
HygGitDiffOk ==
    /\ prog = "check_path_hygiene" /\ pc = "diff"
    /\ \E listing \in SeqsUpTo(DiffLines, MaxLines) : out' = listing
    /\ git_result' = "ok"
    /\ pc' = "scan"
    /\ UNCHANGED <<prog, exit_status, stderr, stdout>>
    /\ UNCHANGED <<base, head, ref_range, violations>>
    /\ UNCHANGED dedVars
    /\ UNCHANGED scanVars
    /\ UNCHANGED <<projVars, depVars, diagVars, archVars>>

\* git ran and exited non-zero: the except clause
HygGitDiffCalledProcessError ==
    /\ prog = "check_path_hygiene" /\ pc = "diff"
    /\ git_result' = "CalledProcessError"
    /\ stderr' = Append(stderr, <<"Git diff failed", "CalledProcessError">>)
    /\ SysExit(2)
    /\ UNCHANGED <<prog, stdout>>
    /\ UNCHANGED <<base, head, ref_range, out, violations>>
    /\ UNCHANGED dedVars
    /\ UNCHANGED scanVars
    /\ UNCHANGED <<projVars, depVars, diagVars, archVars>>

\* git could not be started (not installed, not executable): subprocess
\* raises FileNotFoundError / PermissionError, which the except clause
\* (subprocess.CalledProcessError only) does not catch.
HygGitDiffOSError ==
    /\ prog = "check_path_hygiene" /\ pc = "diff"
    /\ git_result' = "FileNotFoundError"
    /\ Uncaught("FileNotFoundError")
    /\ UNCHANGED <<prog, stdout>>
    /\ UNCHANGED <<base, head, ref_range, out, violations>>
    /\ UNCHANGED dedVars
    /\ UNCHANGED scanVars
    /\ UNCHANGED <<projVars, depVars, diagVars, archVars>>

HygScan ==
    /\ prog = "check_path_hygiene" /\ pc = "scan"
    /\ violations' = ScanLines(<<>>, out)
    /\ pc' = "decide"
    /\ UNCHANGED <<prog, exit_status, stderr, stdout>>
    /\ UNCHANGED <<base, head, ref_range, git_result, out>>
    /\ UNCHANGED dedVars
    /\ UNCHANGED scanVars
    /\ UNCHANGED <<projVars, depVars, diagVars, archVars>>

HygExitCode(v) == IF v # <<>> THEN 1 ELSE 0

HygDecide ==
    /\ prog = "check_path_hygiene" /\ pc = "decide"
    /\ stdout' = IF violations # <<>>
                 THEN stdout \o <<<<"Path hygiene check failed", <<>>>>>>
                        \o [i \in 1..Len(violations) |-> <<"violation", violations[i]>>]
                 ELSE Append(stdout, <<"Path hygiene check passed", <<>>>>)
    /\ SysExit(HygExitCode(violations))
    /\ UNCHANGED <<prog, stderr>>
    /\ UNCHANGED hygVars
    /\ UNCHANGED dedVars
    /\ UNCHANGED scanVars
    /\ UNCHANGED <<projVars, depVars, diagVars, archVars>>

HygNext ==
    \/ HygSelectRange
    \/ HygGitDiffOk
    \/ HygGitDiffCalledProcessError
    \/ HygGitDiffOSError
    \/ HygScan
    \/ HygDecide

\* ============================================================
\* fix_duplicates.py
\* ============================================================
\* project.pbxproj is a sequence of lines.  The lines the script can tell
\* apart are the header of the main Sources build phase, the header of
\* another target's Sources build phase, "files = (", ");" and the entry
\* lines "\t\t\t\t<id> /* <name> in Sources */,\n".
Line(k) == [kind |-> k, id |-> "", name |-> <<>>]

Entry(i, n) == [kind |-> "entry", id |-> i, name |-> n]

\* str.find over lines: the 0-based index of the first line of that kind
\* at or after `from`, -1 when there is none.
Find(text, k, from) ==
    LET hits == {i \in 1..Len(text) : i - 1 >= from /\ text[i].kind = k}
    IN  IF hits = {} THEN 0 - 1
        ELSE (CHOOSE i \in hits : \A j \in hits : i <= j) - 1

\* text[a:b] with Python's treatment of negative and overlong indices
Slice(text, a, b) ==
    LET n == Len(text)
        lo == IF a < 0 THEN (IF n + a < 0 THEN 0 ELSE n + a)
              ELSE (IF a > n THEN n ELSE a)
        hi == IF b < 0 THEN (IF n + b < 0 THEN 0 ELSE n + b)
              ELSE (IF b > n THEN n ELSE b)
    IN  SubSeq(text, lo + 1, hi)

\* re.findall(file_pattern, section): (id, name) of the entry lines whose
\* name ends in .swift, in order
RECURSIVE FindAll(_)
FindAll(section) ==
    IF section = <<>> THEN <<>>
    ELSE LET l == Head(section)
         IN  IF l.kind = "entry" /\ EndsWith(l.name, ".swift")
             THEN <<<<l.id, l.name>>>> \o FindAll(Tail(section))
             ELSE FindAll(Tail(section))

SourcesSection(text) ==
    LET main_sources_start == Find(text, "mainHeader", 0)
        files_start == Find(text, "filesOpen", main_sources_start)
        files_end == Find(text, "close", files_start)
    IN  Slice(text, files_start, files_end)

\* Counter([match[1] for match in matches])
FileCounts(ms) ==
    [n \in {ms[i][2] : i \in 1..Len(ms)} |->
        Cardinality({i \in 1..Len(ms) : ms[i][2] = n})]

DedDuplicates(ms) == {n \in DOMAIN FileCounts(ms) : FileCounts(ms)[n] > 1}

\* the keep/remove loop: <<files_to_keep, files_to_remove>>
RECURSIVE KeepRemove(_, _, _)
KeepRemove(ms, keep, remove) ==
    IF ms = <<>> THEN <<keep, remove>>
    ELSE LET file_id == Head(ms)[1]
             filename == Head(ms)[2]
         IN  IF filename \notin DOMAIN keep
             THEN KeepRemove(Tail(ms), keep @@ (filename :> file_id), remove)
             ELSE KeepRemove(Tail(ms), keep, Append(remove, file_id))

\* ReSubEntry with a pattern that leaves the identifier out
ReSubEntry_AnyId(text, file_id) == SelectSeq(text, LAMBDA l : l.kind # "entry")

\* re.sub(pattern, '', text): every entry line carrying file_id is deleted,
\* wherever it stands in the file
RECURSIVE ReSubEntry(_, _)
ReSubEntry(text, file_id) ==
    IF text = <<>> THEN <<>>
    ELSE LET l == Head(text)
         IN  IF l.kind = "entry" /\ l.id = file_id
             THEN ReSubEntry(Tail(text), file_id)
             ELSE <<l>> \o ReSubEntry(Tail(text), file_id)

\* RemoveAll that stops after the first identifier of the removal list
RemoveAll_FirstOnly(text, ids) ==
    IF ids = <<>> THEN text ELSE ReSubEntry(text, Head(ids))

RECURSIVE RemoveAll(_, _)
RemoveAll(text, ids) ==
    IF ids = <<>> THEN text
    ELSE RemoveAll(ReSubEntry(text, Head(ids)), Tail(ids))

DedIds == {"A1", "B2", "C3"}
DedNames == {<<"A", ".swift">>, <<"B", ".swift">>}
DedEntries == {Entry(d[1], d[2]) : d \in DedIds \X DedNames}

\* what another target's Sources phase lists
OtherEntries == {<<>>,
                 <<Entry("B2", <<"A", ".swift">>)>>,
                 <<Entry("C3", <<"Bridge", ".m">>)>>}

Manifest(hasMain, es, os) ==
    <<Line("other")>>
    \o (IF hasMain
        THEN <<Line("mainHeader"), Line("filesOpen")>> \o es \o <<Line("close")>>
        ELSE <<>>)
    \o <<Line("otherHeader"), Line("filesOpen")>> \o os \o <<Line("close"), Line("other")>>

Manifests ==
    {Manifest(TRUE, es, os) : es \in SeqsUpTo(DedEntries, MaxEntries), os \in OtherEntries}
    \cup {Manifest(FALSE, <<>>, os) : os \in OtherEntries}

DedInit ==
    /\ file \in Manifests
    /\ file0 = file
    /\ runs = 1
    /\ content = <<>>
    /\ matches = <<>>
    /\ files_to_keep = <<>>
    /\ files_to_remove = <<>>
    /\ new_content = <<>>

DedIdle ==
    /\ file = <<>>
    /\ file0 = <<>>
    /\ runs = 0
    /\ content = <<>>
    /\ matches = <<>>
    /\ files_to_keep = <<>>
    /\ files_to_remove = <<>>
    /\ new_content = <<>>

\* read the file; without the main Sources header, exit(1)
DedRead ==
    /\ prog = "fix_duplicates" /\ pc = "start"
    /\ content' = file
    /\ IF Find(file, "mainHeader", 0) = 0 - 1
       THEN /\ stdout' = Append(stdout, <<"Could not find main Sources section", <<>>>>)
            /\ SysExit(1)
       ELSE /\ pc' = "scan"
            /\ UNCHANGED <<exit_status, stdout>>
    /\ UNCHANGED <<prog, stderr>>
    /\ UNCHANGED hygVars
    /\ UNCHANGED <<file, file0, runs, matches, files_to_keep, files_to_remove, new_content>>
    /\ UNCHANGED scanVars
    /\ UNCHANGED <<projVars, depVars, diagVars, archVars>>

\* findall, the duplicate report and the keep/remove loop
DedScan ==
    /\ prog = "fix_duplicates" /\ pc = "scan"
    /\ LET ms == FindAll(SourcesSection(content))
           kr == KeepRemove(ms, <<>>, <<>>)
       IN  /\ matches' = ms
           /\ files_to_keep' = kr[1]
           /\ files_to_remove' = kr[2]
           /\ stdout' = stdout \o <<<<"Found entries", Len(ms)>>,
                                    <<"Duplicate files found", DedDuplicates(ms)>>,
                                    <<"Removing duplicate entries", Len(kr[2])>>>>
    /\ pc' = "remove"
    /\ UNCHANGED <<prog, exit_status, stderr>>
    /\ UNCHANGED hygVars
    /\ UNCHANGED <<file, file0, runs, content, new_content>>
    /\ UNCHANGED scanVars
    /\ UNCHANGED <<projVars, depVars, diagVars, archVars>>

\* the removal loop and the write-back; the script then falls off its end
DedRemoveAndWrite ==
    /\ prog = "fix_duplicates" /\ pc = "remove"
    /\ new_content' = RemoveAll(content, files_to_remove)
    /\ file' = new_content'
    /\ stdout' = Append(stdout, <<"Fixed project.pbxproj file!", <<>>>>)
    /\ SysExit(0)
    /\ UNCHANGED <<prog, stderr>>
    /\ UNCHANGED hygVars
    /\ UNCHANGED <<file0, runs, content, matches, files_to_keep, files_to_remove>>
    /\ UNCHANGED scanVars
    /\ UNCHANGED <<projVars, depVars, diagVars, archVars>>

\* the script is started again on the file the previous run left
DedRunAgain ==
    /\ prog = "fix_duplicates" /\ pc = "exited" /\ exit_status = 0
    /\ runs < MaxRuns
    /\ runs' = runs + 1
    /\ pc' = "start"
    /\ stdout' = <<>>
    /\ content' = <<>>
    /\ matches' = <<>>
    /\ files_to_keep' = <<>>
    /\ files_to_remove' = <<>>
    /\ new_content' = <<>>
    /\ UNCHANGED <<prog, exit_status, stderr, file, file0>>
    /\ UNCHANGED hygVars
    /\ UNCHANGED scanVars
    /\ UNCHANGED <<projVars, depVars, diagVars, archVars>>

DedNext ==
    \/ DedRead
    \/ DedScan
    \/ DedRemoveAndWrite
    \/ DedRunAgain

\* ============================================================
\* scripts/scan_redundancy.py and scripts/scan_project.py: the collector
\* ============================================================
SKIP_REDUNDANCY == <<".git", ".build", "build", "DerivedData", "fastlane", "backup">>

SKIP_PROJECT == <<".git", ".build", "build", "DerivedData">>

SkipList == IF prog = "scan_redundancy" THEN SKIP_REDUNDANCY ELSE SKIP_PROJECT

\* f"{os.sep}{name}{os.sep}" in base.  base is the absolute path of the
\* directory, without a trailing separator, so the substring is there
\* exactly when a component other than the last one is `name`.
SepNameSepIn(name, basedir) == \E i \in 1..(Len(basedir) - 1) : basedir[i] = name

Skipped(skips, basedir) == \E k \in 1..Len(skips) : SepNameSepIn(skips[k], basedir)

\* the directories os.walk yields: ROOT and every directory on the way to
\* a file, each as its components relative to ROOT
WalkDirs(t) ==
    {<<>>} \cup UNION {{SubSeq(f.dir, 1, k) : k \in 0..Len(f.dir)} : f \in t}

Parent(d) == SubSeq(d, 1, Len(d) - 1)

Perms(S) == {q \in [1..Cardinality(S) -> S] : \A i, j \in DOMAIN q : q[i] = q[j] => i = j}

\* os.path.join(base, f) for the .swift files of one directory, in the
\* order `files` lists them
SwiftPathsIn(t, root, d, order) ==
    [i \in 1..Len(order) |-> [dir |-> root \o d, name |-> order[i].name]]

Basename(path) == path.name

\* by_name[os.path.basename(p)].append(p) for p in swift_files
ByName(paths) ==
    [n \in {Basename(paths[i]) : i \in 1..Len(paths)} |->
        LET idx == {i \in 1..Len(paths) : Basename(paths[i]) = n}
            RECURSIVE Pick(_)
            Pick(I) == IF I = {} THEN <<>>
                       ELSE LET i == CHOOSE x \in I : \A y \in I : x <= y
                            IN  <<paths[i]>> \o Pick(I \ {i})
        IN  Pick(idx)]

\* Duplicates with `len(paths) > 0`
Duplicates_NonEmpty(bn) == bn

\* {name: paths for name, paths in by_name.items() if len(paths) > 1}
Duplicates(bn) ==
    LET dup == {n \in DOMAIN bn : Len(bn[n]) > 1}
    IN  [n \in dup |-> bn[n]]

\* what os.path.getsize can return for a collected file
FileSizes == {0, 1}

\* ZeroByte that also lists the files of size 1
ZeroByte_UpToOne(paths, sz) == paths

\* [p for p in swift_files if os.path.getsize(p) == 0]
ZeroByte(paths, sz) ==
    LET RECURSIVE Pick(_)
        Pick(i) == IF i > Len(paths) THEN <<>>
                   ELSE (IF sz[i] = 0 THEN <<paths[i]>> ELSE <<>>) \o Pick(i + 1)
    IN  Pick(1)

ScanDirs == {<<>>, <<"Sources">>, <<"build">>, <<"build", "gen">>, <<"backup", "old">>}

ScanNames == {<<"A", ".swift">>, <<"B", ".swift">>, <<"R", ".md">>}

ScanFiles == {[dir |-> d, name |-> n] : d \in ScanDirs, n \in ScanNames}

Trees == {t \in SUBSET ScanFiles : Cardinality(t) <= MaxFiles}

Roots == {<<"Users", "dev", "Encorely">>, <<"ci", "build", "Encorely">>}

ScanInit ==
    /\ ROOT \in Roots
    /\ tree \in Trees
    /\ walked = {}
    /\ swift_files = <<>>
    /\ sizes = <<>>
    /\ zero_byte = <<>>
    /\ by_name = <<>>
    /\ duplicates = <<>>
    /\ read = <<>>
    /\ intents = <<>>
    /\ widgets = <<>>
    /\ activities = <<>>
    /\ capabilities = {}
    /\ dataModels = <<>>

ScanIdle ==
    /\ ROOT = <<>>
    /\ tree = {}
    /\ walked = {}
    /\ swift_files = <<>>
    /\ sizes = <<>>
    /\ zero_byte = <<>>
    /\ by_name = <<>>
    /\ duplicates = <<>>
    /\ read = <<>>
    /\ intents = <<>>
    /\ widgets = <<>>
    /\ activities = <<>>
    /\ capabilities = {}
    /\ dataModels = <<>>

IsScanner == prog \in {"scan_redundancy", "scan_project"}

\* one iteration of `for base, _, files in os.walk(ROOT)`: a directory
\* whose parent was yielded before (top-down), its files in any order
WalkStep ==
    /\ IsScanner /\ pc = "start"
    /\ \E d \in WalkDirs(tree) \ walked :
          /\ d = <<>> \/ Parent(d) \in walked
          /\ walked' = walked \cup {d}
          /\ IF Skipped(SkipList, ROOT \o d)
             THEN UNCHANGED swift_files
             ELSE \E order \in Perms({f \in tree : f.dir = d /\ EndsWith(f.name, ".swift")}) :
                     swift_files' = swift_files \o SwiftPathsIn(tree, ROOT, d, order)
    /\ UNCHANGED <<prog, pc, exit_status, stderr, stdout>>
    /\ UNCHANGED <<ROOT, tree, redVars, findVars>>
    /\ UNCHANGED hygVars
    /\ UNCHANGED dedVars
    /\ UNCHANGED <<projVars, depVars, diagVars, archVars>>

WalkDone == walked = WalkDirs(tree)

\* scan_redundancy.py after the walk: sizes, grouping, the report
RedReport ==
    /\ prog = "scan_redundancy" /\ pc = "start" /\ WalkDone
    /\ \E sz \in [1..Len(swift_files) -> FileSizes] :
          /\ sizes' = sz
          /\ zero_byte' = ZeroByte(swift_files, sz)
    /\ by_name' = ByName(swift_files)
    /\ duplicates' = Duplicates(by_name')
    /\ stdout' = stdout \o <<<<"Total Swift files", Len(swift_files)>>,
                             <<"Zero-byte Swift files", Len(zero_byte')>>,
                             <<"Duplicate filenames", Cardinality(DOMAIN duplicates')>>>>
    /\ SysExit(0)
    /\ UNCHANGED <<prog, stderr>>
    /\ UNCHANGED <<ROOT, tree, walked, swift_files, findVars>>
    /\ UNCHANGED hygVars
    /\ UNCHANGED dedVars
    /\ UNCHANGED <<projVars, depVars, diagVars, archVars>>

\* ---- scan_project.py: rx and the classification loop
WS == {" ", "\n"}

AllWS(text, a, b) == \A k \in a..b : text[k] \in WS

\* \bimport\s+<module>\b
ImportOf(text, module) ==
    \E i \in 1..Len(text) :
        /\ text[i] = "import"
        /\ \E j \in (i + 2)..Len(text) : AllWS(text, i + 1, j - 1) /\ text[j] = module

\* \b<word>\b
Word(text, w) == \E i \in 1..Len(text) : text[i] = w

\* struct\s+.*:\s*<one of last>, with `struct` at position j: `.` does
\* not match a newline, \s does
StructColon(text, j, last) ==
    /\ text[j] = "struct"
    /\ \E m \in (j + 1)..Len(text) :
          /\ AllWS(text, j + 1, m)
          /\ \E c \in (m + 1)..Len(text) :
                /\ text[c] = ":"
                /\ \A k \in (m + 1)..(c - 1) : text[k] # "\n"
                /\ \E a \in (c + 1)..Len(text) : AllWS(text, c + 1, a - 1) /\ text[a] \in last

\* @main\s+struct\s+.*:\s*App\b
MainStructApp(text) ==
    \E i \in 1..Len(text) :
        /\ text[i] = "@main"
        /\ \E j \in (i + 2)..Len(text) :
              AllWS(text, i + 1, j - 1) /\ StructColon(text, j, {"App"})

\* words that begin with AppIntent
AppIntentWords == {"AppIntent", "AppIntents"}

\* @available\(.*\)\s*struct\s+.*:\s*AppIntent
AvailableStructAppIntent(text) ==
    \E i \in 1..Len(text) :
        /\ text[i] = "@available("
        /\ \E r \in (i + 1)..Len(text) :
              /\ text[r] = ")"
              /\ \A k \in (i + 1)..(r - 1) : text[k] # "\n"
              /\ \E j \in (r + 1)..Len(text) :
                    AllWS(text, r + 1, j - 1) /\ StructColon(text, j, AppIntentWords)

\* words that VNFace\w+ matches
VNFaceWords == {"VNFaceObservation", "VNFaceLandmarks"}

\* rx[key].search(text)
rx(key, text) ==
    CASE key = "intent" ->
            \/ Word(text, "AppIntent") \/ Word(text, "IntentHandler")
            \/ MainStructApp(text)
            \/ AvailableStructAppIntent(text)
      [] key = "appIntentsImport" -> ImportOf(text, "AppIntents")
      [] key = "widget" -> ImportOf(text, "WidgetKit")
      [] key = "activity" -> ImportOf(text, "ActivityKit")
      [] key = "musickit" -> ImportOf(text, "MusicKit") \/ Word(text, "MPMusicPlayerController")
      [] key = "vision" -> ImportOf(text, "Vision") \/ \E w \in VNFaceWords : Word(text, w)
      [] key = "arkit" -> ImportOf(text, "ARKit") \/ Word(text, "ARFaceAnchor")
      [] key = "soundanalysis" ->
            ImportOf(text, "SoundAnalysis") \/ Word(text, "SNAudioStreamAnalyzer")
      [] key = "swiftdata" -> Word(text, "@Model") \/ ImportOf(text, "SwiftData")

\* f.read_text(errors='ignore'): the bytes that do not decode (the atom
\* "0xFF") are dropped
ReadText(data) == SelectSeq(data, LAMBDA a : a # "0xFF")

\* the categories one pass of the loop body puts a file in
Classify_WidgetsNeedNoActivity(text) ==
    (IF rx("appIntentsImport", text) \/ rx("intent", text) THEN {"intents"} ELSE {})
    \cup (IF rx("widget", text) /\ ~rx("activity", text) THEN {"widgets"} ELSE {})
    \cup (IF rx("activity", text) THEN {"activities"} ELSE {})
    \cup (IF rx("musickit", text) THEN {"MusicKit"} ELSE {})
    \cup (IF rx("vision", text) THEN {"Vision"} ELSE {})
    \cup (IF rx("arkit", text) THEN {"ARKit"} ELSE {})
    \cup (IF rx("soundanalysis", text) THEN {"SoundAnalysis"} ELSE {})
    \cup (IF rx("swiftdata", text) THEN {"dataModels"} ELSE {})

Classify(text) ==
    (IF rx("appIntentsImport", text) \/ rx("intent", text) THEN {"intents"} ELSE {})
    \cup (IF rx("widget", text) THEN {"widgets"} ELSE {})
    \cup (IF rx("activity", text) THEN {"activities"} ELSE {})
    \cup (IF rx("musickit", text) THEN {"MusicKit"} ELSE {})
    \cup (IF rx("vision", text) THEN {"Vision"} ELSE {})
    \cup (IF rx("arkit", text) THEN {"ARKit"} ELSE {})
    \cup (IF rx("soundanalysis", text) THEN {"SoundAnalysis"} ELSE {})
    \cup (IF rx("swiftdata", text) THEN {"dataModels"} ELSE {})

\* what a collected file can hold, and a read that raises
FileStates ==
    {[kind |-> "error"],
     [kind |-> "bytes", data |-> <<"//", " ", "WidgetKit">>],
     [kind |-> "bytes", data |-> <<"import", " ", "WidgetKit", "\n",
                                   "import", "\n", "ActivityKit", "\n",
                                   "@Model", " ", "VNFaceObservation">>],
     [kind |-> "bytes", data |-> <<"0xFF", "@main", " ", "struct", "\n", "Mix", ":", " ", "App">>]}

\* the categories of each file state: none when the read raises (the
\* except clause passes the file over), else those of the text read
Categories ==
    [st \in FileStates |->
        IF st.kind = "error" THEN {} ELSE Classify(ReadText(st.data))]

\* Found with an except clause that gives up the whole loop
Found_AbortOnError(rd) ==
    IF \E i \in 1..Len(rd) : rd[i].kind = "error"
    THEN [i \in 1..Len(rd) |-> {}]
    ELSE [i \in 1..Len(rd) |-> Categories[rd[i]]]

\* per collected file, the categories the loop puts it in
Found(rd) == [i \in 1..Len(rd) |-> Categories[rd[i]]]

\* str(f.relative_to(ROOT))
RelativeTo(path, root) ==
    [dir |-> SubSeq(path.dir, Len(root) + 1, Len(path.dir)), name |-> path.name]

\* the list a category collects: the relative paths of its files, in
\* traversal order
Listed(paths, found, category, root) ==
    LET RECURSIVE Pick(_)
        Pick(i) == IF i > Len(paths) THEN <<>>
                   ELSE (IF category \in found[i]
                         THEN <<RelativeTo(paths[i], root)>> ELSE <<>>) \o Pick(i + 1)
    IN  Pick(1)

Capabilities(found) ==
    UNION {found[i] : i \in 1..Len(found)}
        \cap {"MusicKit", "Vision", "ARKit", "SoundAnalysis"}

Missing(i, a, d) ==
    (IF i = <<>> THEN {"appIntents"} ELSE {})
    \cup (IF a = <<>> THEN {"liveActivity"} ELSE {})
    \cup (IF d = <<>> THEN {"swiftData"} ELSE {})

\* scan_project.py after the walk: the classification loop and the summary
ProjReport ==
    /\ prog = "scan_project" /\ pc = "start" /\ WalkDone
    /\ \E rd \in [1..Len(swift_files) -> FileStates] :
          LET found == Found(rd)
          IN  /\ read' = rd
              /\ intents' = Listed(swift_files, found, "intents", ROOT)
              /\ widgets' = Listed(swift_files, found, "widgets", ROOT)
              /\ activities' = Listed(swift_files, found, "activities", ROOT)
              /\ dataModels' = Listed(swift_files, found, "dataModels", ROOT)
              /\ capabilities' = Capabilities(found)
    /\ stdout' = Append(stdout, <<"summary",
                                  [intents |-> intents', widgets |-> widgets',
                                   activities |-> activities', dataModels |-> dataModels',
                                   capabilities |-> capabilities',
                                   missing |-> Missing(intents', activities', dataModels')]>>)
    /\ SysExit(0)
    /\ UNCHANGED <<prog, stderr>>
    /\ UNCHANGED <<ROOT, tree, walked, swift_files, redVars>>
    /\ UNCHANGED hygVars
    /\ UNCHANGED dedVars
    /\ UNCHANGED <<projVars, depVars, diagVars, archVars>>

ScanNext ==
    \/ WalkStep
    \/ RedReport
    \/ ProjReport

\* ============================================================
\* scripts/dependency_analyzer.py
\* ============================================================
\* PathMissing with the existence test left out
PathMissing_Never(exists) == FALSE

\* `if not project_path.exists()`
PathMissing(exists) == ~exists

Unread == [kind |-> "unread"]

Absent == [kind |-> "absent"]

\* an ordered JSON object of dependencies: <<name, version>> pairs
Keys(obj) == [i \in 1..Len(obj) |-> obj[i][1]]

\* {**a, **b}
Merge(a, b) ==
    [n \in {a[i][1] : i \in 1..Len(a)} \cup {b[i][1] : i \in 1..Len(b)} |->
        IF \E i \in 1..Len(b) : b[i][1] = n
        THEN b[CHOOSE i \in 1..Len(b) : b[i][1] = n][2]
        ELSE a[CHOOSE i \in 1..Len(a) : a[i][1] = n][2]]

\* How parse_package_json ends on a file: "return" with a value, "warn"
\* (the except clause: warning, {}), or "raise" with the exception that
\* leaves the function.
ParsePackageJson(f) ==
    CASE f.kind = "absent" -> [how |-> "return", value |-> <<>>]
      [] f.kind = "unreadable" -> [how |-> "warn", exc |-> "OSError"]
      [] f.kind = "invalid_json" -> [how |-> "warn", exc |-> "JSONDecodeError"]
      [] f.kind = "undecodable" -> [how |-> "raise", exc |-> "UnicodeDecodeError"]
      [] f.kind = "non_object" -> [how |-> "raise", exc |-> "AttributeError"]
      [] f.kind = "null_dependencies" -> [how |-> "raise", exc |-> "AttributeError"]
      [] f.kind = "ok" ->
            [how |-> "return",
             value |-> [type |-> "npm",
                        dependencies |->
                            [runtime |-> Keys(f.dependencies),
                             dev |-> Keys(f.devDependencies),
                             peer |-> Keys(f.peerDependencies),
                             versions |-> Merge(f.dependencies, f.devDependencies)]]]

\* the packages list of parse_requirements_txt: stripped lines that are
\* neither empty nor comments
RECURSIVE ReqPackages(_)
ReqPackages(lines) ==
    IF lines = <<>> THEN <<>>
    ELSE LET line == Strip(Head(lines))
         IN  IF line # <<>> /\ Head(line) # "#"
             THEN <<line>> \o ReqPackages(Tail(lines))
             ELSE ReqPackages(Tail(lines))

ParseRequirementsTxt(f) ==
    CASE f.kind = "absent" -> [how |-> "return", value |-> <<>>]
      [] f.kind = "unreadable" -> [how |-> "warn", exc |-> "OSError"]
      [] f.kind = "undecodable" -> [how |-> "raise", exc |-> "UnicodeDecodeError"]
      [] f.kind = "ok" ->
            [how |-> "return", value |-> [type |-> "pip", packages |-> ReqPackages(f.lines)]]

\* parse_go_mod over lines already split on whitespace
RECURSIVE GoModules(_, _)
GoModules(lines, in_require) ==
    IF lines = <<>> THEN <<>>
    ELSE LET line == Head(lines)
             rest == Tail(lines)
         IN  IF StartsWith(line, <<"require", "(">>) THEN GoModules(rest, TRUE)
             ELSE IF in_require
             THEN IF line = <<")">> THEN GoModules(rest, FALSE)
                  ELSE IF Len(line) >= 2
                  THEN <<[module |-> line[1], version |-> line[2]]>> \o GoModules(rest, TRUE)
                  ELSE GoModules(rest, TRUE)
             ELSE IF StartsWith(line, <<"require">>) /\ ~EndsWith(line, "(") /\ Len(line) >= 3
             THEN <<[module |-> line[2], version |-> line[3]]>> \o GoModules(rest, FALSE)
             ELSE GoModules(rest, FALSE)

ParseGoMod(f) ==
    CASE f.kind = "absent" -> [how |-> "return", value |-> <<>>]
      [] f.kind = "ok" ->
            [how |-> "return", value |-> [type |-> "go", modules |-> GoModules(f.lines, FALSE)]]

\* parse_package_swift: the lines holding both ".package(" and "url:"
ParsePackageSwift(f) ==
    CASE f.kind = "absent" -> [how |-> "return", value |-> <<>>]
      [] f.kind = "ok" ->
            [how |-> "return",
             value |-> [type |-> "swift_pm",
                        packages |-> SelectSeq(f.lines,
                            LAMBDA l : /\ \E i \in 1..Len(l) : l[i] = ".package("
                                       /\ \E i \in 1..Len(l) : l[i] = "url:")]]

\* s.split(sep)[0]
BeforeFirst(s, sep) ==
    IF \E i \in 1..Len(s) : s[i] = sep
    THEN SubSeq(s, 1, (CHOOSE i \in 1..Len(s) :
                          s[i] = sep /\ \A j \in 1..Len(s) : s[j] = sep => i <= j) - 1)
    ELSE s

deprecated == {"request", "moment", "lodash", "node-uuid"}

DepName(dep) == Strip(BeforeFirst(BeforeFirst(BeforeFirst(dep, "@"), ">="), "=="))

RECURSIVE DetectOutdatedPatterns(_)
DetectOutdatedPatterns(dependencies) ==
    IF dependencies = <<>> THEN <<>>
    ELSE LET dep_name == DepName(Head(dependencies))
         IN  IF Len(dep_name) = 1 /\ dep_name[1] \in deprecated
             THEN <<[dependency |-> dep_name[1], message |-> <<"deprecated", dep_name[1]>>]>>
                     \o DetectOutdatedPatterns(Tail(dependencies))
             ELSE DetectOutdatedPatterns(Tail(dependencies))

\* AllPackages that also takes the dev dependencies of package.json
AllPackages_WithDev(deps) ==
    (IF "npm" \in DOMAIN deps
     THEN deps["npm"].dependencies.runtime \o deps["npm"].dependencies.dev
     ELSE <<>>)
    \o (IF "pip" \in DOMAIN deps THEN deps["pip"].packages ELSE <<>>)

\* the all_packages loop of main: npm runtime names, then pip packages
AllPackages(deps) ==
    (IF "npm" \in DOMAIN deps THEN deps["npm"].dependencies.runtime ELSE <<>>)
    \o (IF "pip" \in DOMAIN deps THEN deps["pip"].packages ELSE <<>>)

NpmNames == {<<"request">>, <<"axios">>, <<"moment">>}

Objects(names, n) ==
    {[i \in 1..Len(q) |-> <<q[i], "^1.0">>] :
        q \in {r \in SeqsUpTo(names, n) : \A i, j \in DOMAIN r : r[i] = r[j] => i = j}}

DevPeer == {<<<<>>, <<>>>>,
            <<<<<<<<"lodash">>, "^4.0">>>>, <<>>>>,
            <<<<>>, <<<<<<"node-uuid">>, "^1.0">>>>>>}

PackageJsons ==
    {[kind |-> k] : k \in {"absent", "unreadable", "invalid_json", "undecodable",
                           "non_object", "null_dependencies"}}
    \cup {[kind |-> "ok", dependencies |-> d, devDependencies |-> x[1],
           peerDependencies |-> x[2]] : d \in Objects(NpmNames, MaxRuntime), x \in DevPeer}

ReqLines == {<<"flask">>,
             <<"request", "==", "1.0">>,
             <<"moment", " ", ">=", "2">>,
             <<"lodash", "~=", "4">>,
             <<"#", " ", "request">>}

RequirementsTxts ==
    {[kind |-> k] : k \in {"absent", "unreadable", "undecodable"}}
    \cup {[kind |-> "ok", lines |-> l] : l \in SeqsUpTo(ReqLines, MaxReqLines)}

GoMods ==
    {Absent,
     [kind |-> "ok",
      lines |-> <<<<"module", "example.com/app">>,
                  <<"require", "github.com/a/lodash", "v1.0.0">>,
                  <<"require", "(">>,
                  <<"github.com/b/request", "v2.1.0">>,
                  <<")">>>>]}

PackageSwifts ==
    {Absent,
     [kind |-> "ok",
      lines |-> <<<<"dependencies:", "[">>,
                  <<".package(", "url:", "https://github.com/x/moment">>,
                  <<"]">>>>]}

\* what a manifest can be, given that a missing project holds no file
Present(files) == IF path_exists THEN files ELSE {Absent}

DepInit ==
    /\ analyze \in BOOLEAN
    /\ package_json = Unread
    /\ requirements_txt = Unread
    /\ go_mod = Unread
    /\ package_swift = Unread
    /\ all_deps = <<>>
    /\ all_packages = <<>>
    /\ warnings = <<>>

DepIdle ==
    /\ analyze = FALSE
    /\ package_json = Unread
    /\ requirements_txt = Unread
    /\ go_mod = Unread
    /\ package_swift = Unread
    /\ all_deps = <<>>
    /\ all_packages = <<>>
    /\ warnings = <<>>

IsDep == prog = "dependency_analyzer"

DepCheckPath ==
    /\ IsDep /\ pc = "start"
    /\ IF PathMissing(path_exists)
       THEN /\ stderr' = Append(stderr, <<"Error: Project path does not exist", <<>>>>)
            /\ SysExit(1)
            /\ UNCHANGED stdout
       ELSE /\ stdout' = Append(stdout, <<"Analyzing dependencies for", <<>>>>)
            /\ pc' = "package_json"
            /\ UNCHANGED <<exit_status, stderr>>
    /\ UNCHANGED prog
    /\ UNCHANGED <<hygVars, dedVars, scanVars, projVars, depVars, diagVars, archVars>>

\* One `x = parse_...(); if x: all_deps[key] = x` of main, for the file f
\* and what its parser does with it.
DepParsed(f, res, key, label, next) ==
    /\ IF res.how = "raise"
       THEN /\ Uncaught(res.exc)
            /\ UNCHANGED all_deps
       ELSE /\ pc' = next
            /\ UNCHANGED exit_status
            /\ stderr' = IF res.how = "warn"
                         THEN Append(stderr, <<"Warning: Could not parse", label>>)
                         ELSE stderr
            /\ all_deps' = IF res.how = "return" /\ res.value # <<>>
                           THEN all_deps @@ (key :> res.value)
                           ELSE all_deps
    /\ UNCHANGED <<prog, stdout>>
    /\ UNCHANGED <<hygVars, dedVars, scanVars, projVars, diagVars, archVars>>
    /\ UNCHANGED <<analyze, all_packages, warnings>>

DepParsePackageJson ==
    /\ IsDep /\ pc = "package_json"
    /\ \E f \in Present(PackageJsons) :
          /\ package_json' = f
          /\ DepParsed(f, ParsePackageJson(f), "npm", "package.json", "requirements_txt")
    /\ UNCHANGED <<requirements_txt, go_mod, package_swift>>

DepParseRequirementsTxt ==
    /\ IsDep /\ pc = "requirements_txt"
    /\ \E f \in Present(RequirementsTxts) :
          /\ requirements_txt' = f
          /\ DepParsed(f, ParseRequirementsTxt(f), "pip", "requirements.txt", "go_mod")
    /\ UNCHANGED <<package_json, go_mod, package_swift>>

DepParseGoMod ==
    /\ IsDep /\ pc = "go_mod"
    /\ \E f \in Present(GoMods) :
          /\ go_mod' = f
          /\ DepParsed(f, ParseGoMod(f), "go", "go.mod", "package_swift")
    /\ UNCHANGED <<package_json, requirements_txt, package_swift>>

DepParsePackageSwift ==
    /\ IsDep /\ pc = "package_swift"
    /\ \E f \in Present(PackageSwifts) :
          /\ package_swift' = f
          /\ DepParsed(f, ParsePackageSwift(f), "swift", "Package.swift", "report")
    /\ UNCHANGED <<package_json, requirements_txt, go_mod>>

\* the rest of main: no manifest, or the packages, the warnings, the report
DepReport ==
    /\ IsDep /\ pc = "report"
    /\ IF DOMAIN all_deps = {}
       THEN /\ stdout' = Append(stdout, <<"No recognized dependency manifests found.", <<>>>>)
            /\ UNCHANGED <<all_packages, warnings>>
       ELSE /\ all_packages' = AllPackages(all_deps)
            /\ warnings' = IF analyze THEN DetectOutdatedPatterns(all_packages') ELSE <<>>
            /\ \E format \in {"text", "json"} :
                  stdout' = Append(stdout, <<"report", <<format, DOMAIN all_deps, Len(warnings')>>>>)
    /\ SysExit(0)
    /\ UNCHANGED <<prog, stderr>>
    /\ UNCHANGED <<hygVars, dedVars, scanVars, projVars, diagVars, archVars>>
    /\ UNCHANGED <<analyze, package_json, requirements_txt, go_mod, package_swift, all_deps>>

DepNext ==
    \/ DepCheckPath
    \/ DepParsePackageJson
    \/ DepParseRequirementsTxt
    \/ DepParseGoMod
    \/ DepParsePackageSwift
    \/ DepReport

\* ============================================================
\* Files of a project: a file is its path below project_path, a sequence
\* of components, each component a sequence of atoms.
\* ============================================================
\* (project_path / p).exists()
Exists(files, p) == \E f \in files : StartsWith(f, p)

\* (project_path / p).is_dir()
IsDir(files, p) == \E f \in files : Len(f) > Len(p) /\ StartsWith(f, p)

\* ============================================================
\* scripts/architecture_diagram_generator.py
\* ============================================================
indicators == <<
    <<"package.json", "languages", "JavaScript/TypeScript">>,
    <<"requirements.txt", "languages", "Python">>,
    <<"go.mod", "languages", "Go">>,
    <<"Package.swift", "languages", "Swift">>,
    <<"build.gradle", "languages", "Kotlin/Java">>,
    <<"pubspec.yaml", "frontend", "Flutter">>,
    <<"next.config.js", "frontend", "Next.js">>,
    <<"Dockerfile", "devops", "Docker">>,
    <<"docker-compose.yml", "devops", "Docker Compose">>,
    <<"k8s", "devops", "Kubernetes">>,
    <<"terraform", "devops", "Terraform">> >>

component_dirs == <<"src", "lib", "app", "api", "services", "components",
                    "models", "views", "controllers", "utils", "helpers",
                    "middleware", "config", "scripts", "tests">>

DetectTechStack(files) ==
    [category \in {"languages", "frontend", "backend", "database", "devops"} |->
        LET hit == SelectSeq(indicators,
                       LAMBDA ind : ind[2] = category /\ Exists(files, <<<<ind[1]>>>>))
        IN  [i \in 1..Len(hit) |-> hit[i][3]]]

ScanComponents(files) ==
    SelectSeq(component_dirs,
        LAMBDA comp_dir : Exists(files, <<<<comp_dir>>>>) /\ IsDir(files, <<<<comp_dir>>>>))

ExtOf(format) ==
    IF format = "mermaid" THEN ".md"
    ELSE IF format = "plantuml" THEN ".puml"
    ELSE ".json"

\* atoms that are a file-name suffix (a dot and what follows it)
SuffixAtoms == {".md", ".puml", ".json", ".v2", ".py", ".js", ".toml", ".yml", ".example"}

\* PurePath.suffix of a file name given as atoms
Suffix(name) ==
    IF Len(name) > 1 /\ name[Len(name)] \in SuffixAtoms THEN name[Len(name)] ELSE ""

\* Path(name).with_suffix(ext): the existing suffix, if any, is replaced
WithSuffix(name, ext) ==
    IF Suffix(name) # "" THEN SubSeq(name, 1, Len(name) - 1) \o <<ext>>
    ELSE name \o <<ext>>

DiagUniverse == {<<<<"package.json">>>>,
                 <<<<"Dockerfile">>>>,
                 <<<<"pubspec.yaml">>>>,
                 <<<<"src">>, <<"main.py">>>>,
                 <<<<"tests">>, <<"test_main.py">>>>,
                 <<<<"k8s">>, <<"deploy.yaml">>>>}

Outputs == {<<"architecture_diagram">>, <<"arch", ".v2">>, <<"docs/", "diagram">>}

IsDiag == prog = "architecture_diagram_generator"

DiagInit ==
    /\ args_format \in {"mermaid", "plantuml", "json"}
    /\ args_output \in Outputs
    /\ stack = <<>>
    /\ components = <<>>
    /\ output_file = <<>>

DiagIdle ==
    /\ args_format = ""
    /\ args_output = <<>>
    /\ stack = <<>>
    /\ components = <<>>
    /\ output_file = <<>>

DiagCheckPath ==
    /\ IsDiag /\ pc = "start"
    /\ IF PathMissing(path_exists)
       THEN /\ stderr' = Append(stderr, <<"Error: Project path does not exist", <<>>>>)
            /\ SysExit(1)
            /\ UNCHANGED stdout
       ELSE /\ stdout' = Append(stdout, <<"Generating architecture diagram for", args_format>>)
            /\ pc' = "scan"
            /\ UNCHANGED <<exit_status, stderr>>
    /\ UNCHANGED prog
    /\ UNCHANGED <<hygVars, dedVars, scanVars, projVars, depVars, diagVars, archVars>>

DiagScan ==
    /\ IsDiag /\ pc = "scan"
    /\ stack' = DetectTechStack(fs)
    /\ components' = ScanComponents(fs)
    /\ pc' = "write"
    /\ UNCHANGED <<prog, exit_status, stderr, stdout>>
    /\ UNCHANGED <<args_format, args_output, output_file>>
    /\ UNCHANGED <<hygVars, dedVars, scanVars, projVars, depVars, archVars>>

\* the diagram in the chosen format, written to output_file; main returns
\* None, so the process exits 0
DiagWrite ==
    /\ IsDiag /\ pc = "write"
    /\ output_file' = WithSuffix(args_output, ExtOf(args_format))
    /\ written' = written \cup {[name |-> output_file',
                                 content |-> <<args_format, stack, components>>]}
    /\ stdout' = Append(stdout, <<"Architecture diagram saved to", output_file'>>)
    /\ SysExit(0)
    /\ UNCHANGED <<prog, stderr>>
    /\ UNCHANGED <<path_exists, fs>>
    /\ UNCHANGED <<args_format, args_output, stack, components>>
    /\ UNCHANGED <<hygVars, dedVars, scanVars, depVars, archVars>>

DiagNext ==
    \/ DiagCheckPath
    \/ DiagScan
    \/ DiagWrite

\* ============================================================
\* scripts/project_architect.py
\* ============================================================
F(name) == <<name>>

structure_checks == <<
    <<"README", ".md">>, <<".gitignore">>, <<".env", ".example">>,
    <<"CONTRIBUTING", ".md">>, <<"CHANGELOG", ".md">> >>

test_dirs == <<<<"tests">>, <<"test">>, <<"__tests__">>, <<"spec">>>>

lint_configs == <<
    <<".eslintrc">>, <<".eslintrc", ".js">>, <<".eslintrc", ".json">>, <<".eslintrc", ".yml">>,
    <<".pylintrc">>, <<"pyproject", ".toml">>, <<".swiftlint", ".yml">>, <<".golangci", ".yml">> >>

security_files == <<<<<<"SECURITY", ".md">>>>, <<<<".github">>, <<"SECURITY", ".md">>>>>>

env_files == <<<<".env">>, <<".env", ".local">>, <<".env", ".development">>>>

ci_paths == <<
    <<<<".github">>, <<"workflows">>>>, <<<<".circleci">>>>, <<<<".gitlab-ci", ".yml">>>>,
    <<<<"Jenkinsfile">>>>, <<<<".travis", ".yml">>>> >>

AnyExists(files, paths) == \E i \in 1..Len(paths) : Exists(files, paths[i])

Rec(type, what) == [type |-> type, message |-> what]

CheckProjectStructure(files) ==
    LET missing == SelectSeq(structure_checks, LAMBDA n : ~Exists(files, F(n)))
    IN  [i \in 1..Len(missing) |-> Rec("structure", missing[i])]

\* check_code_quality that never asks for a linter configuration
CheckCodeQuality_TestsOnly(files) ==
    IF ~AnyExists(files, [i \in 1..Len(test_dirs) |-> F(test_dirs[i])])
    THEN <<Rec("quality", <<"tests/">>)>> ELSE <<>>

CheckCodeQuality(files) ==
    (IF ~AnyExists(files, [i \in 1..Len(test_dirs) |-> F(test_dirs[i])])
     THEN <<Rec("quality", <<"tests/">>)>> ELSE <<>>)
    \o (IF ~AnyExists(files, [i \in 1..Len(lint_configs) |-> F(lint_configs[i])])
        THEN <<Rec("quality", <<"linter">>)>> ELSE <<>>)

\* `sub in text`, both sequences of atoms
In(sub, text) ==
    \E i \in 0..(Len(text) - Len(sub)) : SubSeq(text, i + 1, i + Len(sub)) = sub

CheckSecurity(files, gitignore_content) ==
    (IF ~AnyExists(files, security_files)
     THEN <<Rec("security", <<"SECURITY", ".md">>)>> ELSE <<>>)
    \o LET leaking == SelectSeq(env_files, LAMBDA env_file :
                          /\ Exists(files, F(env_file))
                          /\ Exists(files, F(<<".gitignore">>))
                          /\ ~In(env_file, gitignore_content)
                          /\ ~In(<<".env">>, gitignore_content))
       IN  [i \in 1..Len(leaking) |-> Rec("security", leaking[i])]

CheckCiCd(files) ==
    IF ~AnyExists(files, ci_paths) THEN <<Rec("devops", <<"CI/CD">>)>> ELSE <<>>

source_extensions == {".py", ".js", ".ts", ".swift", ".kt", ".go", ".dart"}

test_keywords == {"test", "spec", "__test__"}

doc_extensions == {".md", ".rst", ".txt"}

pruned_dirs == {"node_modules", ".git", "build", "dist"}

\* atoms that begin with a dot
DotAtoms == {".github", ".git", ".gitignore", ".env", ".circleci"}

\* the files os.walk reaches: no directory on the way starts with "." or
\* is one of the pruned names
Walked(files) ==
    {f \in files : \A k \in 1..(Len(f) - 1) :
        f[k][1] \notin DotAtoms /\ f[k][1] \notin pruned_dirs}

\* str.lower() of an atom
Lower(a) ==
    CASE a = "README" -> "readme"
      [] a = "CONTRIBUTING" -> "contributing"
      [] a = "CHANGELOG" -> "changelog"
      [] a = "SECURITY" -> "security"
      [] OTHER -> a

\* fname.lower() of a file's name
LowerName(f) == [i \in 1..Len(f[Len(f)]) |-> Lower(f[Len(f)][i])]

\* CountFile that counts a documentation file as a doc file only
CountFile_DocNotTotal(m, f) ==
    LET ext == Suffix(LowerName(f))
        test == \E i \in 1..Len(LowerName(f)) : LowerName(f)[i] \in test_keywords
    IN  [total_files |-> m.total_files + (IF ext \in doc_extensions THEN 0 ELSE 1),
         source_files |-> m.source_files + (IF ext \in source_extensions THEN 1 ELSE 0),
         test_files |-> m.test_files + (IF ext \in source_extensions /\ test THEN 1 ELSE 0),
         doc_files |-> m.doc_files + (IF ext \in doc_extensions THEN 1 ELSE 0)]

\* the body of `for fname in files` for one file
CountFile(m, f) ==
    LET ext == Suffix(LowerName(f))
        test == \E i \in 1..Len(LowerName(f)) : LowerName(f)[i] \in test_keywords
    IN  [total_files |-> m.total_files + 1,
         source_files |-> m.source_files + (IF ext \in source_extensions THEN 1 ELSE 0),
         test_files |-> m.test_files + (IF ext \in source_extensions /\ test THEN 1 ELSE 0),
         doc_files |-> m.doc_files + (IF ext \in doc_extensions THEN 1 ELSE 0)]

\* what compute_metrics returns for a set of files
ComputeMetrics(files) ==
    LET seen == Walked(files)
        fname(f) == [i \in 1..Len(f[Len(f)]) |-> Lower(f[Len(f)][i])]
        src == {f \in seen : Suffix(fname(f)) \in source_extensions}
    IN  [total_files |-> Cardinality(seen),
         source_files |-> Cardinality(src),
         test_files |-> Cardinality({f \in src :
                            \E i \in 1..Len(fname(f)) : fname(f)[i] \in test_keywords}),
         doc_files |-> Cardinality({f \in seen : Suffix(fname(f)) \in doc_extensions})]

\* ExitCode that leaves the security recommendations out
ArchExitCode_NoSecurity(structure, quality, security, cicd) ==
    IF structure \o quality \o cicd = <<>> THEN 0 ELSE 1

\* `return 0 if not all_recommendations else 1`
ArchExitCode(structure, quality, security, cicd) ==
    IF structure \o quality \o security \o cicd = <<>> THEN 0 ELSE 1

ArchUniverse == {<<<<"README", ".md">>>>,
                 <<<<".gitignore">>>>,
                 <<<<".env", ".example">>>>,
                 <<<<"CONTRIBUTING", ".md">>>>,
                 <<<<"CHANGELOG", ".md">>>>,
                 <<<<"tests">>, <<"test", "_app", ".py">>>>,
                 <<<<"pyproject", ".toml">>>>,
                 <<<<"SECURITY", ".md">>>>,
                 <<<<".env">>>>,
                 <<<<".github">>, <<"workflows">>, <<"ci", ".yml">>>>,
                 <<<<"node_modules">>, <<"lib", ".js">>>>}

GitignoreContents == {<<"build/", "\n">>,
                      <<"build/", "\n", ".env", "\n">>,
                      <<".env", ".local", "\n">>}

IsArch == prog = "project_architect"

ArchInit ==
    /\ structure_recs = <<>>
    /\ quality_recs = <<>>
    /\ security_recs = <<>>
    /\ cicd_recs = <<>>
    /\ metrics = <<>>
    /\ visited = {}
    /\ all_recommendations = <<>>

ArchCheckPath ==
    /\ IsArch /\ pc = "start"
    /\ IF PathMissing(path_exists)
       THEN /\ stderr' = Append(stderr, <<"Error: Target path does not exist", <<>>>>)
            /\ SysExit(1)
            /\ UNCHANGED stdout
       ELSE /\ stdout' = Append(stdout, <<"Analyzing project", <<>>>>)
            /\ pc' = "structure"
            /\ UNCHANGED <<exit_status, stderr>>
    /\ UNCHANGED prog
    /\ UNCHANGED <<hygVars, dedVars, scanVars, projVars, depVars, diagVars, archVars>>

ArchStructure ==
    /\ IsArch /\ pc = "structure"
    /\ structure_recs' = CheckProjectStructure(fs)
    /\ pc' = "quality"
    /\ UNCHANGED <<prog, exit_status, stderr, stdout>>
    /\ UNCHANGED <<quality_recs, security_recs, cicd_recs, metrics, visited, all_recommendations>>
    /\ UNCHANGED <<hygVars, dedVars, scanVars, projVars, depVars, diagVars>>

ArchQuality ==
    /\ IsArch /\ pc = "quality"
    /\ quality_recs' = CheckCodeQuality(fs)
    /\ pc' = "security"
    /\ UNCHANGED <<prog, exit_status, stderr, stdout>>
    /\ UNCHANGED <<structure_recs, security_recs, cicd_recs, metrics, visited, all_recommendations>>
    /\ UNCHANGED <<hygVars, dedVars, scanVars, projVars, depVars, diagVars>>

\* .gitignore is read only when it and an env file exist
ArchSecurity ==
    /\ IsArch /\ pc = "security"
    /\ \E gitignore_content \in
            (IF Exists(fs, F(<<".gitignore">>)) /\ AnyExists(fs, [i \in 1..Len(env_files) |-> F(env_files[i])])
             THEN GitignoreContents ELSE {<<>>}) :
          security_recs' = CheckSecurity(fs, gitignore_content)
    /\ pc' = "cicd"
    /\ UNCHANGED <<prog, exit_status, stderr, stdout>>
    /\ UNCHANGED <<structure_recs, quality_recs, cicd_recs, metrics, visited, all_recommendations>>
    /\ UNCHANGED <<hygVars, dedVars, scanVars, projVars, depVars, diagVars>>

ArchCiCd ==
    /\ IsArch /\ pc = "cicd"
    /\ cicd_recs' = CheckCiCd(fs)
    /\ pc' = "metrics"
    /\ UNCHANGED <<prog, exit_status, stderr, stdout>>
    /\ UNCHANGED <<structure_recs, quality_recs, security_recs, metrics, visited, all_recommendations>>
    /\ UNCHANGED <<hygVars, dedVars, scanVars, projVars, depVars, diagVars>>

\* the call of compute_metrics: the counters start at zero
ArchMetrics ==
    /\ IsArch /\ pc = "metrics"
    /\ metrics' = [total_files |-> 0, source_files |-> 0, test_files |-> 0, doc_files |-> 0]
    /\ visited' = {}
    /\ pc' = "walk"
    /\ UNCHANGED <<prog, exit_status, stderr, stdout>>
    /\ UNCHANGED <<structure_recs, quality_recs, security_recs, cicd_recs, all_recommendations>>
    /\ UNCHANGED <<hygVars, dedVars, scanVars, projVars, depVars, diagVars>>

\* one pass of `for fname in files`: os.walk is top-down, so a file comes
\* after the files of the directories above its own; within a directory
\* the order is the listing's
ArchWalkFile ==
    /\ IsArch /\ pc = "walk"
    /\ \E f \in Walked(fs) \ visited :
          /\ \A g \in Walked(fs) :
                (Len(g) < Len(f) /\ StartsWith(f, SubSeq(g, 1, Len(g) - 1))) => g \in visited
          /\ metrics' = CountFile(metrics, f)
          /\ visited' = visited \cup {f}
    /\ UNCHANGED <<prog, pc, exit_status, stderr, stdout>>
    /\ UNCHANGED <<structure_recs, quality_recs, security_recs, cicd_recs, all_recommendations>>
    /\ UNCHANGED <<hygVars, dedVars, scanVars, projVars, depVars, diagVars>>

\* the walk is exhausted: `return metrics`
ArchMetricsReturn ==
    /\ IsArch /\ pc = "walk"
    /\ visited = Walked(fs)
    /\ pc' = "report"
    /\ UNCHANGED <<prog, exit_status, stderr, stdout>>
    /\ UNCHANGED archVars
    /\ UNCHANGED <<hygVars, dedVars, scanVars, projVars, depVars, diagVars>>

ArchReport ==
    /\ IsArch /\ pc = "report"
    /\ all_recommendations' = structure_recs \o quality_recs \o security_recs \o cicd_recs
    /\ stdout' = Append(stdout, <<"Project Architecture Report",
                                  <<metrics, Len(all_recommendations')>>>>)
    /\ SysExit(ArchExitCode(structure_recs, quality_recs, security_recs, cicd_recs))
    /\ UNCHANGED <<prog, stderr>>
    /\ UNCHANGED <<structure_recs, quality_recs, security_recs, cicd_recs, metrics, visited>>
    /\ UNCHANGED <<hygVars, dedVars, scanVars, projVars, depVars, diagVars>>

ArchNext ==
    \/ ArchCheckPath
    \/ ArchStructure
    \/ ArchQuality
    \/ ArchSecurity
    \/ ArchCiCd
    \/ ArchMetrics
    \/ ArchWalkFile
    \/ ArchMetricsReturn
    \/ ArchReport

\* ============================================================
\* The specification
\* ============================================================
Programs == {"check_path_hygiene", "fix_duplicates", "scan_redundancy", "scan_project",
             "dependency_analyzer", "architecture_diagram_generator", "project_architect"}

ProjectFiles ==
    IF IsDiag THEN SUBSET DiagUniverse
    ELSE IF IsArch THEN SUBSET ArchUniverse
    ELSE {{}}

ProjInit ==
    /\ path_exists \in BOOLEAN
    /\ fs \in (IF path_exists THEN ProjectFiles ELSE {{}})
    /\ written = {}

ProjIdle ==
    /\ path_exists = FALSE
    /\ fs = {}
    /\ written = {}


Init ==
    /\ prog \in Programs
    /\ pc = "start"
    /\ exit_status = 0
    /\ stderr = <<>>
    /\ stdout = <<>>
    /\ IF prog = "check_path_hygiene" THEN HygInit ELSE HygIdle
    /\ IF prog = "fix_duplicates" THEN DedInit ELSE DedIdle
    /\ IF IsScanner THEN ScanInit ELSE ScanIdle
    /\ IF IsDep \/ IsDiag \/ IsArch THEN ProjInit ELSE ProjIdle
    /\ IF IsDep THEN DepInit ELSE DepIdle
    /\ IF IsDiag THEN DiagInit ELSE DiagIdle
    /\ ArchInit

Next ==
    \/ HygNext
    \/ DedNext
    \/ ScanNext
    \/ DepNext
    \/ DiagNext
    \/ ArchNext

Spec == Init /\ [][Next]_vars

\* ---- one script at a time
HygStart == Init /\ prog = "check_path_hygiene"

HygSpec == HygStart /\ [][HygNext]_vars

DedStart == Init /\ prog = "fix_duplicates"

DedSpec == DedStart /\ [][DedNext]_vars

ScanStart == Init /\ IsScanner

ScanSpec == ScanStart /\ [][ScanNext]_vars

DepStart == Init /\ IsDep

DepSpec == DepStart /\ [][DepNext]_vars

DiagStart == Init /\ IsDiag

DiagSpec == DiagStart /\ [][DiagNext]_vars

ArchStart == Init /\ IsArch

ArchSpec == ArchStart /\ [][ArchNext]_vars

\* ============================================================
\* Properties
\* ============================================================
HygExited == prog = "check_path_hygiene" /\ pc = "exited"

\* C1: the path-hygiene check ends in one of three outcomes: every failure
\* of the diff command is reported and exits 2 with no path evaluated;
\* otherwise exit 1 iff there are violations and exit 0 iff there are none.
\* Status 1 never comes from a tooling failure.
C1_ExitOutcomes ==
    HygExited =>
        /\ git_result # "ok" =>
              /\ exit_status = 2
              /\ \E i \in 1..Len(stderr) : stderr[i][1] = "Git diff failed"
              /\ violations = <<>>
        /\ git_result = "ok" =>
              /\ exit_status = 1 <=> violations # <<>>
              /\ exit_status = 0 <=> violations = <<>>

\* The allow-list of C2, stated on paths directly.
C2_UnderAllowed(p) ==
    \/ StartsWith(p, <<"Sources", "/", "App", "/", "Consolidated", "/">>)
    \/ StartsWith(p, <<"Sources", "/", "Kits", "/">>)
    \/ StartsWith(p, <<"Sources", "/", "SharedTypes", "/">>)
    \/ StartsWith(p, <<"Tests", "/">>)
    \/ /\ StartsWith(p, <<"Sources", "/", "MCP">>)
       /\ Len(p) >= 5
       /\ p[4] # "/"
       /\ \E k \in 5..Len(p) : p[k] = "/"

C2_Violating(listing) ==
    {Strip(listing[i][2]) : i \in {j \in 1..Len(listing) :
        /\ Len(listing[j]) >= 2
        /\ Strip(listing[j][1]) = <<"A">>
        /\ EndsWith(Strip(listing[j][2]), ".swift")
        /\ ~StartsWith(Strip(listing[j][2]), <<"backup", "/">>)
        /\ ~C2_UnderAllowed(Strip(listing[j][2]))}}

C2_Printed == {stdout[i][2] : i \in {j \in 1..Len(stdout) : stdout[j][1] = "violation"}}

RandomFoo == <<"Sources", "/", "App", "/", "Random", "/", "Foo", ".swift">>

\* C2: the violation output holds a path iff it was added (status A), ends
\* in .swift, is not under backup/ and matches no allow-listed prefix; an
\* added Sources/App/Random/Foo.swift is listed with exit 1, a diff whose
\* only added file is Tests/Foo.swift exits 0.
C2_ViolationsExact ==
    (HygExited /\ git_result = "ok") =>
        /\ C2_Printed = C2_Violating(out)
        /\ exit_status = 1 <=> C2_Violating(out) # {}
        /\ (\E i \in 1..Len(out) : out[i] = <<<<"A">>, RandomFoo>>) =>
              (RandomFoo \in C2_Printed /\ exit_status = 1)
        /\ out = <<<<<<"A">>, <<"Tests", "/", "Foo", ".swift">>>>>> => exit_status = 0

C2_Witness ==
    /\ HygExited /\ git_result = "ok"
    /\ Len(out) = 2
    /\ out[1] = <<<<"A">>, RandomFoo>>
    /\ out[2] = <<<<"M">>, RandomFoo>>
    /\ C2_Printed = {RandomFoo}
    /\ exit_status = 1

DedDone == prog = "fix_duplicates" /\ pc = "exited" /\ exit_status = 0

\* the (id, name) entries of the main Sources file list of a manifest
MainList(text) == FindAll(SourcesSection(text))

FirstSeenId(ms, n) ==
    ms[CHOOSE i \in 1..Len(ms) :
          /\ ms[i][2] = n
          /\ \A j \in 1..Len(ms) : ms[j][2] = n => i <= j][1]

\* C3: after a run, every file name of the main Sources list still has the
\* entry with its first-seen identifier, and exactly one entry per file
\* name remains.
C3_FirstSeenKept ==
    DedDone =>
        LET before == MainList(content)
            after == MainList(file)
        IN  \A i \in 1..Len(before) :
               LET n == before[i][2]
               IN  /\ \E k \in 1..Len(after) : after[k] = <<FirstSeenId(before, n), n>>
                   /\ Cardinality({k \in 1..Len(after) : after[k][2] = n}) = 1

\* C4: a run on the output of a previous run removes nothing and writes
\* back the content it read.
C4_Idempotent ==
    (DedDone /\ runs >= 2) =>
        /\ files_to_remove = <<>>
        /\ file = content

C4_Witness ==
    /\ DedDone /\ runs = 2
    /\ Len(MainList(file0)) = 3
    /\ Len(MainList(file)) = 1
    /\ files_to_remove = <<>>

\* the directory names C5 excludes, per scanner
C5_Excluded ==
    IF prog = "scan_redundancy"
    THEN {".git", ".build", "build", "DerivedData", "fastlane", "backup"}
    ELSE {".git", ".build", "build", "DerivedData"}

C5_Expected ==
    {f \in tree : /\ EndsWith(f.name, ".swift")
                  /\ \A k \in 1..Len(ROOT \o f.dir) : (ROOT \o f.dir)[k] \notin C5_Excluded}

\* C5: the collector yields exactly the .swift files with no excluded
\* directory among their ancestors (files directly inside an excluded
\* directory included among the omitted), each once, whatever the
\* traversal order.
C5_CollectorExact ==
    (IsScanner /\ WalkDone) =>
        /\ {swift_files[i] : i \in 1..Len(swift_files)}
              = {[dir |-> ROOT \o f.dir, name |-> f.name] : f \in C5_Expected}
        /\ Len(swift_files) = Cardinality(C5_Expected)

RedDone == prog = "scan_redundancy" /\ pc = "exited"

C6_Count(names, n) == Cardinality({i \in 1..Len(names) : names[i] = n})

C6_Dups(names) == {n \in {names[i] : i \in 1..Len(names)} : C6_Count(names, n) > 1}

C6_ABA == <<<<"A", ".swift">>, <<"B", ".swift">>, <<"A", ".swift">>>>

\* C6: a basename is reported as duplicate iff more than one collected
\* path has it, and every path of its group is listed; for basenames
\* [A.swift, B.swift, A.swift] the duplicates are exactly A.swift, twice.
\* The manifest deduplicator's duplicate report follows the same rule.
C6_DuplicatesExact ==
    /\ RedDone =>
          LET names == [i \in 1..Len(swift_files) |-> Basename(swift_files[i])]
          IN  /\ DOMAIN duplicates = C6_Dups(names)
              /\ \A n \in DOMAIN duplicates :
                    /\ Len(duplicates[n]) = C6_Count(names, n)
                    /\ {duplicates[n][k] : k \in 1..Len(duplicates[n])}
                          = {swift_files[i] : i \in {j \in 1..Len(swift_files) :
                                                       Basename(swift_files[j]) = n}}
              /\ names = C6_ABA =>
                    /\ DOMAIN duplicates = {<<"A", ".swift">>}
                    /\ Len(duplicates[<<"A", ".swift">>]) = 2
    /\ (prog = "fix_duplicates" /\ pc \in {"remove", "exited"} /\ Len(stdout) >= 2) =>
          LET names == [i \in 1..Len(matches) |-> matches[i][2]]
          IN  /\ stdout[2] = <<"Duplicate files found", C6_Dups(names)>>
              /\ names = C6_ABA => stdout[2][2] = {<<"A", ".swift">>}

C6_Witness ==
    /\ RedDone
    /\ [i \in 1..Len(swift_files) |-> Basename(swift_files[i])] = C6_ABA
    /\ DOMAIN duplicates = {<<"A", ".swift">>}
    /\ Len(duplicates[<<"A", ".swift">>]) = 2

DepDone == IsDep /\ pc = "exited" /\ exit_status = 0 /\ path_exists

C7_DenyList == {"request", "moment", "lodash", "node-uuid"}

C7_WarnNames == [i \in 1..Len(warnings) |-> warnings[i].dependency]

\* the declared runtime dependencies of package.json, as plain names
C7_Runtime ==
    IF package_json.kind = "ok"
    THEN [i \in 1..Len(package_json.dependencies) |-> package_json.dependencies[i][1]]
    ELSE <<>>

C7_Requirements == IF requirements_txt.kind = "ok" THEN requirements_txt.lines ELSE <<>>

\* the text of a declaration before its first '@', '>=' or '==', stripped
C7_NamePart(l) ==
    LET cut == {i \in 1..Len(l) : l[i] \in {"@", ">=", "=="}}
        n == IF cut = {} THEN Len(l) ELSE (CHOOSE i \in cut : \A j \in cut : i <= j) - 1
    IN  Strip(SubSeq(l, 1, n))

C7_Denied(decls) ==
    LET hit == SelectSeq(decls, LAMBDA l : Len(C7_NamePart(l)) = 1
                                           /\ C7_NamePart(l)[1] \in C7_DenyList)
    IN  [i \in 1..Len(hit) |-> C7_NamePart(hit[i])[1]]

C7_RequestAxios == <<<<<<"request">>, "^1.0">>, <<<<"axios">>, "^1.0">>>>

\* C7 as claimed: with analysis enabled the warnings are exactly the
\* deny-listed runtime dependencies of package.json, in declaration order,
\* and nothing else; with analysis disabled there are none.
C7_RuntimeOnly ==
    DepDone =>
        /\ analyze => C7_WarnNames = C7_Denied(C7_Runtime)
        /\ ~analyze => warnings = <<>>

\* C7 as amended: the warnings are the deny-listed runtime dependencies of
\* package.json, in declaration order, followed by the requirements.txt
\* lines whose name part is deny-listed, in file order, and nothing else;
\* a project with only a package.json declaring request and axios gets
\* exactly one warning, for request.  With analysis disabled: none.
C7_RuntimeThenRequirements ==
    DepDone =>
        /\ analyze => C7_WarnNames = C7_Denied(C7_Runtime) \o C7_Denied(C7_Requirements)
        /\ (/\ analyze
            /\ package_json.kind = "ok"
            /\ package_json.dependencies = C7_RequestAxios
            /\ requirements_txt.kind = "absent") => C7_WarnNames = <<"request">>
        /\ ~analyze => warnings = <<>>

C7_Witness ==
    /\ DepDone /\ analyze
    /\ package_json.kind = "ok"
    /\ package_json.dependencies = C7_RequestAxios
    /\ package_json.devDependencies # <<>>
    /\ requirements_txt.kind = "ok"
    /\ requirements_txt.lines = <<<<"flask">>, <<"moment", " ", ">=", "2">>>>
    /\ C7_WarnNames = <<"request", "moment">>

C8_Malformed == {"undecodable", "invalid_json", "non_object", "null_dependencies"}

\* C8: a package.json that exists but is malformed gives a warning and an
\* empty result; the run is not aborted and the remaining manifests are
\* still parsed and reported.
C8_BestEffort ==
    (IsDep /\ package_json.kind \in C8_Malformed) =>
        /\ \E i \in 1..Len(stderr) : stderr[i] = <<"Warning: Could not parse", "package.json">>
        /\ \A i \in 1..Len(stderr) : stderr[i][1] # "Traceback"
        /\ "npm" \notin DOMAIN all_deps
        /\ pc = "exited" =>
              /\ exit_status = 0
              /\ requirements_txt # Unread /\ go_mod # Unread /\ package_swift # Unread
              /\ \E i \in 1..Len(stdout) :
                    stdout[i][1] \in {"report", "No recognized dependency manifests found."}

C9_PathErrors == {"Error: Project path does not exist", "Error: Target path does not exist"}

\* C9: in the diagram generator, the dependency analyzer and the project
\* architect a missing project path is reported on the error stream and
\* the process exits non-zero before any scan, report or output file.
C9_MissingTarget ==
    ((IsDiag \/ IsDep \/ IsArch) /\ ~path_exists) =>
        /\ pc \in {"start", "exited"}
        /\ written = {}
        /\ stdout = <<>>
        /\ stack = <<>> /\ components = <<>> /\ output_file = <<>>
        /\ package_json = Unread /\ requirements_txt = Unread
        /\ go_mod = Unread /\ package_swift = Unread /\ all_deps = <<>>
        /\ structure_recs = <<>> /\ quality_recs = <<>> /\ security_recs = <<>>
        /\ cicd_recs = <<>> /\ metrics = <<>>
        /\ pc = "exited" =>
              /\ exit_status # 0
              /\ Len(stderr) = 1
              /\ stderr[1][1] \in C9_PathErrors

C9_Witness ==
    /\ IsDiag /\ ~path_exists /\ pc = "exited"
    /\ exit_status = 1
    /\ stderr = <<<<"Error: Project path does not exist", <<>>>>>>
    /\ written = {}

C11_FiveMissing ==
    {Rec("structure", <<"README", ".md">>),
     Rec("structure", <<".gitignore">>),
     Rec("quality", <<"tests/">>),
     Rec("quality", <<"linter">>),
     Rec("devops", <<"CI/CD">>)}

C11_Reported == {all_recommendations[i] : i \in 1..Len(all_recommendations)}

\* C11: for an existing, empty project directory the project architect
\* reports total_files = 0 and its recommendations include the
\* missing-README, missing-.gitignore, missing-tests, missing-linter and
\* missing-CI entries of the checklist.
C11_EmptyProject ==
    (IsArch /\ pc = "exited" /\ path_exists /\ fs = {}) =>
        /\ metrics.total_files = 0
        /\ C11_FiveMissing \subseteq C11_Reported
        /\ stdout[Len(stdout)] = <<"Project Architecture Report",
                                   <<metrics, Len(all_recommendations)>>>>

C11_Witness ==
    /\ IsArch /\ pc = "exited" /\ path_exists /\ fs = {}
    /\ metrics = [total_files |-> 0, source_files |-> 0, test_files |-> 0, doc_files |-> 0]
    /\ Len(all_recommendations) = 9
    /\ exit_status = 1

\* C12: the diagram generator writes its result to <output>.<ext>, the
\* full value of --output followed by the extension of --format, for every
\* --output value, one containing a dot included.
C12_OutputPlusExt ==
    (IsDiag /\ pc = "exited" /\ path_exists) =>
        /\ output_file = args_output \o <<ExtOf(args_format)>>
        /\ \E w \in written : w.name = args_output \o <<ExtOf(args_format)>>

\* C13: once the path-hygiene checker has chosen its range, the range is
\* origin/<base>...HEAD when GITHUB_BASE_REF is set and non-empty and
\* HEAD~1..HEAD when it is unset or empty; GITHUB_HEAD_REF plays no part.
C13_RangeFromBaseOnly ==
    (prog = "check_path_hygiene" /\ pc # "start") =>
        /\ (base # <<>> /\ base # <<"">>) => ref_range = <<"origin/", base[1], "...HEAD">>
        /\ (base = <<>> \/ base = <<"">>) => ref_range = <<"HEAD~1..HEAD">>
        /\ \A i \in 1..Len(ref_range) : ref_range[i] # "topic"

C13_Witness ==
    /\ prog = "check_path_hygiene" /\ pc = "exited"
    /\ base = <<"">> /\ head = <<"topic">>
    /\ ref_range = <<"HEAD~1..HEAD">>
    /\ git_result = "ok"

\* the identifier of a declaration: its text before the first version
\* operator (==, >=, ~=, <, @), stripped
C14_Identifier(l) ==
    LET cut == {i \in 1..Len(l) : l[i] \in {"@", ">=", "==", "~=", "<"}}
        n == IF cut = {} THEN Len(l) ELSE (CHOOSE i \in cut : \A j \in cut : i <= j) - 1
    IN  Strip(SubSeq(l, 1, n))

\* every package declared in a parsed manifest, whatever its section
C14_Declared ==
    (IF package_json.kind = "ok"
     THEN {d[1] : d \in {package_json.dependencies[i] : i \in DOMAIN package_json.dependencies}
                        \cup {package_json.devDependencies[i] : i \in DOMAIN package_json.devDependencies}
                        \cup {package_json.peerDependencies[i] : i \in DOMAIN package_json.peerDependencies}}
     ELSE {})
    \cup (IF requirements_txt.kind = "ok"
          THEN {l \in {Strip(requirements_txt.lines[i]) : i \in DOMAIN requirements_txt.lines} :
                    l # <<>> /\ l[1] # "#"}
          ELSE {})

\* C14: with analysis enabled, every package declared in a parsed manifest
\* whose identifier is in the deny-list gets an advisory, whatever section
\* declares it and whatever version operator follows it.
C14_EveryDeclaredFlagged ==
    (DepDone /\ analyze) =>
        \A l \in C14_Declared :
            (Len(C14_Identifier(l)) = 1 /\ C14_Identifier(l)[1] \in deprecated) =>
                \E i \in 1..Len(warnings) : warnings[i].dependency = C14_Identifier(l)[1]

C15_Names == [i \in 1..Len(swift_files) |-> Basename(swift_files[i])]

\* C15: in the redundancy scanner a collected file is listed as zero-byte
\* iff its size is 0, duplicated basename or not, and a basename is listed
\* as duplicate iff more than one collected path has it, whatever the
\* sizes; both reports range over the same collected files.
C15_ZeroByteIndependent ==
    RedDone =>
        /\ \A i \in 1..Len(swift_files) :
              (\E k \in 1..Len(zero_byte) : zero_byte[k] = swift_files[i]) <=> sizes[i] = 0
        /\ Len(zero_byte) = Cardinality({i \in 1..Len(swift_files) : sizes[i] = 0})
        /\ \A n \in {C15_Names[i] : i \in 1..Len(swift_files)} :
              n \in DOMAIN duplicates
                  <=> Cardinality({i \in 1..Len(swift_files) : C15_Names[i] = n}) > 1
        /\ \A k \in 1..Len(zero_byte) : \E i \in 1..Len(swift_files) : swift_files[i] = zero_byte[k]
        /\ \A n \in DOMAIN duplicates : \A k \in 1..Len(duplicates[n]) :
              \E i \in 1..Len(swift_files) : swift_files[i] = duplicates[n][k]

\* a duplicated basename with one empty and one non-empty file, and an
\* empty file whose basename is unique
C15_Witness ==
    /\ RedDone
    /\ Len(swift_files) = 3
    /\ \E i, j, k \in 1..3 :
          /\ C15_Names[i] = C15_Names[j] /\ i # j
          /\ sizes[i] = 0 /\ sizes[j] = 1
          /\ C15_Names[k] # C15_Names[i] /\ sizes[k] = 0
    /\ Len(zero_byte) = 2
    /\ Cardinality(DOMAIN duplicates) = 1

ProjDone == prog = "scan_project" /\ pc = "exited"

\* for each readable file state, which patterns its text matches
C16_Matches ==
    [st \in {x \in FileStates : x.kind = "bytes"} |->
        [key \in {"intent", "appIntentsImport", "widget", "activity", "musickit",
                  "vision", "arkit", "soundanalysis", "swiftdata"} |->
            rx(key, ReadText(st.data))]]

\* whether the text read from the i-th collected file matches rx[key]
C16_Hit(key, i) == C16_Matches[read[i]][key]

C16_Rel(i) == RelativeTo(swift_files[i], ROOT)

C16_In(list, i) == \E k \in 1..Len(list) : list[k] = C16_Rel(i)

C16_Readable == {i \in 1..Len(swift_files) : read[i].kind = "bytes"}

\* C16: in the project scanner each category's membership is decided by
\* that category's own predicate on the file's content alone: the same
\* content gives the same membership, a file may be in zero, one or many
\* categories, and no category's match adds or suppresses another's.
C16_CategoriesIndependent ==
    ProjDone =>
        /\ \A i \in C16_Readable :
              /\ C16_In(intents, i)
                    <=> (C16_Hit("appIntentsImport", i) \/ C16_Hit("intent", i))
              /\ C16_In(widgets, i) <=> C16_Hit("widget", i)
              /\ C16_In(activities, i) <=> C16_Hit("activity", i)
              /\ C16_In(dataModels, i) <=> C16_Hit("swiftdata", i)
        /\ "MusicKit" \in capabilities <=> \E i \in C16_Readable : C16_Hit("musickit", i)
        /\ "Vision" \in capabilities <=> \E i \in C16_Readable : C16_Hit("vision", i)
        /\ "ARKit" \in capabilities <=> \E i \in C16_Readable : C16_Hit("arkit", i)
        /\ "SoundAnalysis" \in capabilities
              <=> \E i \in C16_Readable : C16_Hit("soundanalysis", i)
        /\ \A i, j \in C16_Readable :
              read[i] = read[j] =>
                  \A list \in {intents, widgets, activities, dataModels} :
                      C16_In(list, i) <=> C16_In(list, j)

\* the same content in two files, both in three categories, and a third
\* file in none
C16_Witness ==
    /\ ProjDone
    /\ Len(swift_files) = 3
    /\ \E i, j, k \in C16_Readable :
          /\ i # j /\ read[i] = read[j]
          /\ C16_In(widgets, i) /\ C16_In(activities, i) /\ C16_In(dataModels, i)
          /\ C16_In(widgets, j) /\ C16_In(activities, j) /\ C16_In(dataModels, j)
          /\ ~C16_In(intents, i)
          /\ \A list \in {intents, widgets, activities, dataModels} : ~C16_In(list, k)
    /\ capabilities = {"Vision"}

\* the subsequence of s at the indices in I
C17_Keep(s, I) ==
    LET RECURSIVE Pick(_)
        Pick(i) == IF i > Len(s) THEN <<>>
                   ELSE (IF i \in I THEN <<s[i]>> ELSE <<>>) \o Pick(i + 1)
    IN  Pick(1)

\* the categories of what each readable file state holds
C17_Classified ==
    [st \in {x \in FileStates : x.kind = "bytes"} |-> Classify(ReadText(st.data))]

\* the findings of a scan over the files at the indices in I only
C17_FindingsOver(I) ==
    LET paths == C17_Keep(swift_files, I)
        texts == C17_Keep(read, I)
        found == [i \in 1..Len(paths) |-> C17_Classified[texts[i]]]
    IN  [intents |-> Listed(paths, found, "intents", ROOT),
         widgets |-> Listed(paths, found, "widgets", ROOT),
         activities |-> Listed(paths, found, "activities", ROOT),
         dataModels |-> Listed(paths, found, "dataModels", ROOT),
         capabilities |-> Capabilities(found)]

C17_Findings ==
    [intents |-> intents, widgets |-> widgets, activities |-> activities,
     dataModels |-> dataModels, capabilities |-> capabilities]

\* the collected files whose read raises
C17_Unreadable == {i \in 1..Len(swift_files) : read[i].kind = "error"}

\* the collected files that hold bytes that do not decode
C17_Undecodable ==
    {i \in 1..Len(swift_files) :
        read[i].kind = "bytes" /\ \E k \in 1..Len(read[i].data) : read[i].data[k] = "0xFF"}

C17_InNoList(i) ==
    \A list \in {intents, widgets, activities, dataModels} : ~C16_In(list, i)

C18_InPrunedDir(f) ==
    \E k \in 1..(Len(f) - 1) :
        f[k][1] \in DotAtoms \/ f[k][1] \in {"node_modules", "build", "dist"}

C18_Walking == IsArch /\ pc \in {"walk", "report", "exited"} /\ path_exists

C18_Relations ==
    C18_Walking =>
        /\ metrics.test_files <= metrics.source_files
        /\ metrics.source_files + metrics.doc_files <= metrics.total_files
        /\ \A c \in {"total_files", "source_files", "test_files", "doc_files"} : metrics[c] >= 0
        /\ \A f \in visited : ~C18_InPrunedDir(f)
        /\ metrics.total_files = Cardinality(visited)
        /\ pc \in {"report", "exited"} =>
              /\ visited = {f \in fs : ~C18_InPrunedDir(f)}
              /\ metrics = ComputeMetrics(fs)

C18_NeverDecreases ==
    (C18_Walking /\ C18_Walking') =>
        \A c \in {"total_files", "source_files", "test_files", "doc_files"} :
            metrics'[c] >= metrics[c]

C19_Without(s, D) ==
    LET RECURSIVE Pick(_)
        Pick(i) == IF i > Len(s) THEN <<>>
                   ELSE (IF i \in D THEN <<>> ELSE <<s[i]>>) \o Pick(i + 1)
    IN  Pick(1)

\* the identifiers marked as later duplicates in the main Sources list
C19_MarkedIds ==
    LET ms == MainList(content)
    IN  {ms[i][1] : i \in {k \in 1..Len(ms) : \E j \in 1..(k - 1) : ms[j][2] = ms[k][2]}}

\* the positions of the entry lines that carry a marked identifier
C19_Deletable ==
    {i \in 1..Len(content) : content[i].kind = "entry" /\ content[i].id \in C19_MarkedIds}

C19_NoHeader == \A i \in 1..Len(content) : content[i].kind # "mainHeader"

\* C19: the deduplicator changes the manifest only by deleting entry lines
\* whose identifier was marked as a later duplicate in the main Sources
\* list, every other line staying as it was and in order, nothing added;
\* without the main Sources header it exits 1 and writes nothing.
C19_OnlyMarkedEntriesDeleted ==
    /\ DedDone =>
          /\ \E D \in SUBSET C19_Deletable : file = C19_Without(content, D)
          /\ file = new_content
    /\ (prog = "fix_duplicates" /\ pc # "start" /\ C19_NoHeader) =>
          /\ pc = "exited" /\ exit_status = 1
          /\ file = content /\ file = file0
          /\ new_content = <<>>
    /\ (prog = "fix_duplicates" /\ pc \in {"scan", "remove"}) => file = content

\* a duplicate entry was deleted while the other target's entry and the
\* remaining lines stayed
C19_Witness ==
    /\ DedDone /\ runs = 1
    /\ Len(file) = Len(content) - 1
    /\ \E i \in 1..Len(file) : file[i] = Entry("C3", <<"Bridge", ".m">>)
    /\ files_to_remove = <<"B2">>

====
